---- MODULE Spec2Model ----
(***************************************************************************)
(* Model of streamlit_app.py, the Feynman-diagram sketcher: the stroke     *)
(* colour classifier, the canvas-object parser, the quick view, the        *)
(* matplotlib renderer, the TikZ generator and the three button handlers.  *)
(*                                                                         *)
(* Conventions                                                             *)
(*  - a Python str is a sequence of one-character strings;                 *)
(*  - a Python dict is a function on its keys (an absent key is a key not  *)
(*    in DOMAIN);                                                          *)
(*  - a number is an integer count of quarter pixels (0.25 is exact in     *)
(*    binary floating point, so sums and differences are exact and the     *)
(*    '.1f' formatting rounds exact ties half-to-even, as modelled);       *)
(*  - a value that may be None where a str or a number is expected is     *)
(*    None or Some(v).                                                     *)
(*                                                                         *)
(* The docstring of generate_tikz (line 251) holds the escape \u in a      *)
(* non-raw literal, which Python 3 refuses to compile; the model takes     *)
(* the statements of the script as they read, the docstring aside.         *)
(***************************************************************************)
EXTENDS Integers, Sequences, FiniteSets, TLC

VARIABLES
  json_data,   \* canvas_result.json_data of the current script run
  nodes,       \* module-level nodes (line 151)
  edges,       \* module-level edges (line 151)
  quick_view,  \* what lines 154-164 wrote
  message,     \* st.success / st.error of the button handlers
  image,       \* what Exportar PNG showed: None or Some(render output)
  tikz,        \* what Generar TikZ showed: None or Some(document)
  exc,         \* the exception that ended the script run, "none" if it completed
  button,      \* the button whose press started this run, "none" if none did
  hexcolor,    \* argument of a direct call of color_to_type
  ctype        \* its result

vars == <<json_data, nodes, edges, quick_view, message, image, tikz, exc, button, hexcolor, ctype>>

----------------------------------------------------------------------------
(* Python values *)

None == [none |-> TRUE]
Some(v) == [none |-> FALSE, v |-> v]

\* The number n of whole pixels, in quarter pixels.
Px(n) == 4 * n

----------------------------------------------------------------------------
(* str operations *)

ToLower == [c \in {"A", "B", "C", "D", "E", "F", "X"} |->
              CASE c = "A" -> "a" [] c = "B" -> "b" [] c = "C" -> "c"
                [] c = "D" -> "d" [] c = "E" -> "e" [] c = "F" -> "f"
                [] c = "X" -> "x"]

\* str.lower()
Lower(s) == [i \in 1..Len(s) |-> IF s[i] \in DOMAIN ToLower THEN ToLower[s[i]] ELSE s[i]]

\* str.lstrip(ch)
RECURSIVE LStrip(_, _)
LStrip(s, ch) == IF s # <<>> /\ Head(s) = ch THEN LStrip(Tail(s), ch) ELSE s

\* sub in s
In(sub, s) ==
  \E i \in 0..(Len(s) - Len(sub)) : SubSeq(s, i + 1, i + Len(sub)) = sub

\* s.split()[0] for a str holding a non-blank character
RECURSIVE FirstToken(_)
FirstToken(s) ==
  IF s = <<>> THEN <<>>
  ELSE IF Head(s) = " " THEN <<>>
  ELSE <<Head(s)>> \o FirstToken(Tail(s))

----------------------------------------------------------------------------
(* The colour table *)

K_vertex      == <<"v","é","r","t","i","c","e"," ","(","v","e","r","t","e","x",")">>
K_fermion     == <<"f","e","r","m","i","o","n"," ","(","→","/","←",")">>
K_antifermion == <<"a","n","t","i","f","e","r","m","i","o","n"," ","(","←","/","→",")">>
K_photon      == <<"f","o","t","ó","n"," ","(","p","h","o","t","o","n",")">>
K_gluon       == <<"g","l","u","ó","n"," ","(","g","l","u","o","n",")">>
K_neutral     == <<"l","í","n","e","a"," ","n","e","u","t","r","a"," ",
                   "(","l","í","n","e","a"," ","s","i","m","p","l","e",")">>
K_unknown     == <<"d","e","s","c","o","n","o","c","i","d","o">>

\* color_map in insertion order, the order color_map.items() iterates in.
color_map == <<
  [k |-> K_vertex,      v |-> <<"#","0","0","0","0","0","0">>],
  [k |-> K_fermion,     v |-> <<"#","1","f","7","7","b","4">>],
  [k |-> K_antifermion, v |-> <<"#","f","f","7","f","0","e">>],
  [k |-> K_photon,      v |-> <<"#","2","c","a","0","2","c">>],
  [k |-> K_gluon,       v |-> <<"#","d","6","2","7","2","8">>],
  [k |-> K_neutral,     v |-> <<"#","9","4","6","7","b","d">>] >>

\* color_map[key]
ColorOf(key) == color_map[CHOOSE i \in 1..Len(color_map) : color_map[i].k = key].v

\* hexcolor or ""
OrEmpty(h) == IF h.none THEN <<>> ELSE h.v

\* First loop of color_to_type from entry i on: the exact match.
RECURSIVE ExactFrom(_, _)
ExactFrom(i, h) ==
  IF i > Len(color_map) THEN None
  ELSE IF Lower(color_map[i].v) = Lower(OrEmpty(h)) THEN Some(color_map[i].k)
  ELSE ExactFrom(i + 1, h)

\* SubstrFrom looking for the table colour with its '#'.
RECURSIVE SubstrFrom_NoLStrip(_, _)
SubstrFrom_NoLStrip(i, h) ==
  IF i > Len(color_map) THEN None
  ELSE IF In(Lower(color_map[i].v), Lower(OrEmpty(h))) THEN Some(color_map[i].k)
  ELSE SubstrFrom_NoLStrip(i + 1, h)

\* Second loop of color_to_type from entry i on: the substring match.
RECURSIVE SubstrFrom(_, _)
SubstrFrom(i, h) ==
  IF i > Len(color_map) THEN None
  ELSE IF In(LStrip(Lower(color_map[i].v), "#"), Lower(OrEmpty(h))) THEN Some(color_map[i].k)
  ELSE SubstrFrom(i + 1, h)

color_to_type(h) ==
  IF ~ExactFrom(1, h).none THEN ExactFrom(1, h).v
  ELSE IF ~SubstrFrom(1, h).none THEN SubstrFrom(1, h).v
  ELSE K_unknown

----------------------------------------------------------------------------
(* parse_canvas_objects *)

\* dict.get(key, default)
Get(obj, key, default) == IF key \in DOMAIN obj THEN obj[key] ELSE default

\* dict.get(key) of a number: None when the key is absent
GetOpt(obj, key) == IF key \in DOMAIN obj THEN Some(obj[key]) ELSE None

\* Line 108: the stroke field if truthy, else strokeStyle if truthy, else "".
StrokeOf(obj) ==
  IF Get(obj, "stroke", <<>>) # <<>> THEN Lower(obj.stroke)
  ELSE IF Get(obj, "strokeStyle", <<>>) # <<>> THEN Lower(obj.strokeStyle)
  ELSE <<>>

\* NodeOf numbering the nodes from 1.
NodeOf_IdFromOne(obj, node_id) ==
  LET left == Get(obj, "left", 0)
      top  == Get(obj, "top", 0)
      rx   == Get(obj, "radiusX", Get(obj, "rx", Px(10)))
      ry   == Get(obj, "radiusY", Get(obj, "ry", Px(10)))
  IN [id |-> node_id + 1, x |-> left + rx, y |-> top + ry,
      type |-> color_to_type(Some(StrokeOf(obj))), raw |-> obj]

\* NodeOf without the rx/ry fallback of the radii.
NodeOf_NoRxFallback(obj, node_id) ==
  LET left == Get(obj, "left", 0)
      top  == Get(obj, "top", 0)
      rx   == Get(obj, "radiusX", Px(10))
      ry   == Get(obj, "radiusY", Px(10))
  IN [id |-> node_id, x |-> left + rx, y |-> top + ry,
      type |-> color_to_type(Some(StrokeOf(obj))), raw |-> obj]

\* Lines 111-123: the node of a circle or ellipse.
NodeOf(obj, node_id) ==
  LET left == Get(obj, "left", 0)
      top  == Get(obj, "top", 0)
      rx   == Get(obj, "radiusX", Get(obj, "rx", Px(10)))
      ry   == Get(obj, "radiusY", Get(obj, "ry", Px(10)))
  IN [id |-> node_id, x |-> left + rx, y |-> top + ry,
      type |-> color_to_type(Some(StrokeOf(obj))), raw |-> obj]

\* Lines 127-147: the edge of a line or path.
EdgeOf(obj) ==
  LET x1 == GetOpt(obj, "x1")
      y1 == GetOpt(obj, "y1")
      x2 == GetOpt(obj, "x2")
      y2 == GetOpt(obj, "y2")
      left == Get(obj, "left", 0)
      top  == Get(obj, "top", 0)
      points == Get(obj, "points", <<>>)
      p0 == points[1]
      pN == points[Len(points)]
      w == Get(obj, "width", 0)
      h == Get(obj, "height", 0)
      ends ==
        IF x1 = None
        THEN IF Len(points) >= 2
             THEN <<Some(left + Get(p0, "x", 0)), Some(top + Get(p0, "y", 0)),
                    Some(left + Get(pN, "x", 0)), Some(top + Get(pN, "y", 0))>>
             ELSE <<Some(left), Some(top), Some(left + w), Some(top + h)>>
        ELSE <<x1, y1, x2, y2>>
  IN [x1 |-> ends[1], y1 |-> ends[2], x2 |-> ends[3], y2 |-> ends[4],
      type |-> color_to_type(Some(StrokeOf(obj))), raw |-> obj]

\* obj.get("type")
TypOf(obj) == Get(obj, "type", "None")

\* The loop of lines 105-148 from object i on.
RECURSIVE ParseLoop(_, _, _, _, _)
ParseLoop(objects, i, ns, es, node_id) ==
  IF i > Len(objects) THEN [nodes |-> ns, edges |-> es]
  ELSE LET obj == objects[i]
           typ == TypOf(obj)
       IN IF typ = "circle" \/ typ = "ellipse"
          THEN ParseLoop(objects, i + 1, Append(ns, NodeOf(obj, node_id)), es, node_id + 1)
          ELSE IF typ = "line" \/ typ = "path"
          THEN ParseLoop(objects, i + 1, ns, Append(es, EdgeOf(obj)), node_id)
          ELSE ParseLoop(objects, i + 1, ns, es, node_id)

parse_canvas_objects(jd) ==
  IF jd = None \/ "objects" \notin DOMAIN jd
  THEN [nodes |-> <<>>, edges |-> <<>>]
  ELSE ParseLoop(jd.objects, 1, <<>>, <<>>, 0)

----------------------------------------------------------------------------
(* Canvas settings *)

CANVAS_WIDTH == 800
CANVAS_HEIGHT == 400

----------------------------------------------------------------------------
(* The quick view, lines 153-164 *)

\* int(x) of a number: truncation toward zero.
IntOf(q) == IF q >= 0 THEN q \div 4 ELSE -((-q) \div 4)

\* min(4, n)
Min4(n) == IF n < 4 THEN n ELSE 4

\* Line 159, the text written for node i (0-based), with its column.
NodeView(ns, i) ==
  LET n == ns[i + 1]
  IN [col |-> i % Min4(Len(ns)), id |-> n.id, x |-> IntOf(n.x), y |-> IntOf(n.y), type |-> n.type]

\* int(None) raises TypeError.
EdgeViewRaises(e) == e.x1.none \/ e.y1.none \/ e.x2.none \/ e.y2.none

\* Line 164, the text written for edge i (0-based), with its column.
EdgeView(es, i) ==
  LET e == es[i + 1]
  IN [col |-> i % Min4(Len(es)), i |-> i, x1 |-> IntOf(e.x1.v), y1 |-> IntOf(e.y1.v),
      x2 |-> IntOf(e.x2.v), y2 |-> IntOf(e.y2.v), type |-> e.type]

\* The loop of lines 163-164 from edge i (0-based) on: what was written, and
\* the exception that stopped it.
RECURSIVE EdgeViewLoop(_, _, _)
EdgeViewLoop(es, i, written) ==
  IF i >= Len(es) THEN [lines |-> written, exc |-> "none"]
  ELSE IF EdgeViewRaises(es[i + 1]) THEN [lines |-> written, exc |-> "TypeError"]
  ELSE EdgeViewLoop(es, i + 1, Append(written, EdgeView(es, i)))

QuickView(ns, es) ==
  LET ev == EdgeViewLoop(es, 0, <<>>)
  IN [counts |-> <<Len(ns), Len(es)>>,
      node_lines |-> [i \in 1..Len(ns) |-> NodeView(ns, i - 1)],
      edge_lines |-> ev.lines,
      exc |-> ev.exc]

----------------------------------------------------------------------------
(* render_diagram_matplotlib.  It is called only from the Exportar PNG       *)
(* handler, which the script reaches only when the quick view raised        *)
(* nothing, so every coordinate it reads is a number.                       *)

S_fermion     == <<"f","e","r","m","i","o","n">>
S_antifermion == <<"a","n","t","i","f","e","r","m","i","o","n">>
S_foton       == <<"f","o","t","ó","n">>
S_photon      == <<"p","h","o","t","o","n">>
S_gluon       == <<"g","l","u","ó","n">>
S_neutra      == <<"l","í","n","e","a"," ","n","e","u","t","r","a">>

\* Lines 177-200: colour, line style and arrow flag of an edge type.
EdgeStyle(typ) ==
  IF In(S_fermion, typ)
  THEN [color |-> ColorOf(K_fermion), style |-> "solid", arrow |-> TRUE]
  ELSE IF In(S_antifermion, typ)
  THEN [color |-> ColorOf(K_antifermion), style |-> "solid", arrow |-> TRUE]
  ELSE IF In(S_foton, typ) \/ In(S_photon, typ)
  THEN [color |-> ColorOf(K_photon), style |-> "dashdot", arrow |-> FALSE]
  ELSE IF In(S_gluon, typ)
  THEN [color |-> ColorOf(K_gluon), style |-> "dashed", arrow |-> FALSE]
  ELSE IF In(S_neutra, typ)
  THEN [color |-> ColorOf(K_neutral), style |-> "solid", arrow |-> FALSE]
  ELSE [color |-> <<"#","2","2","2","2","2","2">>, style |-> "solid", arrow |-> FALSE]

\* Lines 203-212: the line of an edge and its arrow patch.  The arrow's tail
\* (sx, sy) is in 1/40 pixel and its direction (dx, dy) in 1/4000 pixel.
DrawEdge(e) ==
  LET x1 == e.x1.v
      y1 == e.y1.v
      x2 == e.x2.v
      y2 == e.y2.v
      st == EdgeStyle(e.type)
  IN [xs |-> <<x1, x2>>, ys |-> <<y1, y2>>,
      linestyle |-> st.style, linewidth |-> 2, color |-> st.color, type |-> e.type,
      arrow |-> IF st.arrow
                THEN Some([sx |-> 10 * x1 + 7 * (x2 - x1), sy |-> 10 * y1 + 7 * (y2 - y1),
                           dx |-> x2 - x1, dy |-> y2 - y1,
                           arrowstyle |-> "-|>", color |-> st.color])
                ELSE None]

\* Lines 216-220: the disc of a node and its label.
DrawNode(n) ==
  [cx |-> n.x, cy |-> n.y, radius |-> Px(8), color |-> "k", zorder |-> 5,
   tx |-> n.x + Px(10), ty |-> n.y - Px(10),
   short |-> IF n.type # K_unknown THEN FirstToken(n.type) ELSE <<"N">>]

render_diagram_matplotlib(ns, es) ==
  [xlim |-> <<0, Px(CANVAS_WIDTH)>>, ylim |-> <<Px(CANVAS_HEIGHT), 0>>,
   lines |-> [i \in 1..Len(es) |-> DrawEdge(es[i])],
   discs |-> [i \in 1..Len(ns) |-> DrawNode(ns[i])]]

----------------------------------------------------------------------------
(* generate_tikz.  Called only from the Generar TikZ handler, with numbers. *)

\* f"{x:.1f}": the number of tenths printed, ties to even.
Format1(q) ==
  LET n == 10 * q
      f == n \div 4
      r == n % 4
  IN IF r < 2 THEN f
     ELSE IF r > 2 THEN f + 1
     ELSE IF f % 2 = 0 THEN f ELSE f + 1

\* TikzStyle with a plain segment as the default.
TikzStyle_PlainDefault(typ) ==
  IF In(S_foton, typ) \/ In(S_photon, typ) THEN [style |-> "", extra |-> "[photon]"]
  ELSE IF In(S_gluon, typ) THEN [style |-> "", extra |-> "[gluon]"]
  ELSE IF In(S_fermion, typ) THEN [style |-> "->", extra |-> ""]
  ELSE IF In(S_antifermion, typ) THEN [style |-> "<-", extra |-> ""]
  ELSE [style |-> "", extra |-> ""]

\* Lines 274-287: arrow directive and style option of an edge type.
TikzStyle(typ) ==
  IF In(S_foton, typ) \/ In(S_photon, typ) THEN [style |-> "", extra |-> "[photon]"]
  ELSE IF In(S_gluon, typ) THEN [style |-> "", extra |-> "[gluon]"]
  ELSE IF In(S_fermion, typ) THEN [style |-> "->", extra |-> ""]
  ELSE IF In(S_antifermion, typ) THEN [style |-> "<-", extra |-> ""]
  ELSE IF In(S_neutra, typ) THEN [style |-> "", extra |-> ""]
  ELSE [style |-> "->", extra |-> ""]

\* FlipY leaving y as it is.
FlipY_NoFlip(y) == y

\* Line 266: ty = height - y
FlipY(y) == Px(CANVAS_HEIGHT) - y

\* Line 267
NodeLine(n) ==
  [kind |-> "node", name |-> n.id, x |-> Format1(n.x), y |-> Format1(FlipY(n.y)),
   label |-> n.id]

\* Lines 271-289
EdgeLine(e) ==
  LET st == TikzStyle(e.type)
  IN [kind |-> "draw", extra |-> st.extra,
      x1 |-> Format1(e.x1.v), y1 |-> Format1(FlipY(e.y1.v)),
      style |-> st.style,
      x2 |-> Format1(e.x2.v), y2 |-> Format1(FlipY(e.y2.v))]

TextLine(t) == [kind |-> "text", text |-> t]

\* Lines 256-259
header == <<TextLine("% TikZ generado automáticamente"),
            TextLine("\\begin{tikzpicture}[scale=0.035, >=Stealth]"),
            TextLine("\\tikzset{photon/.style={decorate, decoration={snake, amplitude=1.2mm}, line width=1pt}}"),
            TextLine("\\tikzset{gluon/.style={decorate, decoration={coil, aspect=0.6, segment length=2pt}, line width=1pt}}")>>

\* Line 291
footer == <<TextLine("\\end{tikzpicture}")>>

\* "\n".join(ls) + "\n" as lines: an empty list leaves one empty line.
JoinLines(ls) == IF Len(ls) = 0 THEN <<[kind |-> "blank"]>> ELSE ls

\* The document, as its lines.
generate_tikz(ns, es) ==
  header
  \o JoinLines([i \in 1..Len(ns) |-> NodeLine(ns[i])])
  \o JoinLines([i \in 1..Len(es) |-> EdgeLine(es[i])])
  \o footer

----------------------------------------------------------------------------
(* One run of the script, lines 151-302: parse, quick view, button handlers. *)

MsgReconstruct == "Diagrama reconstruido a partir del lienzo. Revisa las listas arriba para confirmar nodos/aristas."
MsgNoPNG  == "No hay objetos en el lienzo para exportar."
MsgNoTikZ == "No hay objetos para convertir a TikZ."

\* NothingToExport with < written for ==.
NothingToExport_StrictLess(ns, es) == Len(ns) + Len(es) < 0

\* Lines 238 and 297: len(nodes) + len(edges) == 0
NothingToExport(ns, es) == Len(ns) + Len(es) = 0

\* pressed: "none", or the one st.button that returns True in this run.
RunScript(jd, pressed) ==
  LET p  == parse_canvas_objects(jd)
      qv == QuickView(p.nodes, p.edges)
      ok == qv.exc = "none"
      empty == NothingToExport(p.nodes, p.edges)
  IN [json_data |-> jd, button |-> pressed, nodes |-> p.nodes, edges |-> p.edges,
      quick_view |-> [counts |-> qv.counts, node_lines |-> qv.node_lines,
                      edge_lines |-> qv.edge_lines],
      exc |-> qv.exc,
      message |-> IF ~ok THEN "none"
                  ELSE IF pressed = "reconstruct" THEN MsgReconstruct
                  ELSE IF pressed = "png" /\ empty THEN MsgNoPNG
                  ELSE IF pressed = "tikz" /\ empty THEN MsgNoTikZ
                  ELSE "none",
      image |-> IF ok /\ pressed = "png" /\ ~empty
                THEN Some(render_diagram_matplotlib(p.nodes, p.edges)) ELSE None,
      tikz  |-> IF ok /\ pressed = "tikz" /\ ~empty
                THEN Some(generate_tikz(p.nodes, p.edges)) ELSE None]

\* The state the run leaves.
Ran(r) ==
  /\ json_data' = r.json_data
  /\ nodes' = r.nodes
  /\ edges' = r.edges
  /\ quick_view' = r.quick_view
  /\ exc' = r.exc
  /\ button' = r.button
  /\ message' = r.message
  /\ image' = r.image
  /\ tikz' = r.tikz
  /\ UNCHANGED <<hexcolor, ctype>>

Is(r) ==
  /\ json_data = r.json_data
  /\ nodes = r.nodes
  /\ edges = r.edges
  /\ quick_view = r.quick_view
  /\ exc = r.exc
  /\ button = r.button
  /\ message = r.message
  /\ image = r.image
  /\ tikz = r.tikz

\* The shapes on the canvas.
Objects(jd) == IF jd = None \/ "objects" \notin DOMAIN jd THEN <<>> ELSE jd.objects

----------------------------------------------------------------------------
(* The shapes the drawing surface hands over *)

BLACK    == color_map[1].v
BLUE     == color_map[2].v
ORANGE_U == <<"#","F","F","7","F","0","E">>
GREEN    == color_map[4].v
RED      == color_map[5].v
PURPLE   == color_map[6].v
UNLISTED    == <<"#","1","2","3","4","5","6">>

Palette == {
  [type |-> "circle", left |-> Px(10) + 1, top |-> Px(20), radiusX |-> Px(5), radiusY |-> Px(5),
   stroke |-> BLACK],
  [type |-> "ellipse", left |-> Px(200), top |-> Px(395), rx |-> Px(30) + 3, stroke |-> BLUE],
  [type |-> "line", x1 |-> 0, y1 |-> 0, x2 |-> Px(100), y2 |-> 0, stroke |-> BLUE],
  [type |-> "line", x1 |-> Px(100), y1 |-> Px(50), x2 |-> Px(30) + 1, y2 |-> Px(60) + 3,
   stroke |-> ORANGE_U],
  [type |-> "line", x1 |-> Px(20), y1 |-> Px(30), x2 |-> Px(20), y2 |-> Px(90) + 2,
   strokeStyle |-> GREEN],
  [type |-> "path", left |-> Px(50), top |-> Px(60),
   points |-> <<[x |-> 0, y |-> 1], [x |-> Px(5), y |-> Px(5)], [x |-> Px(40) + 3, y |-> Px(10)]>>,
   stroke |-> RED],
  [type |-> "path", left |-> Px(300), top |-> Px(100), width |-> Px(80), height |-> Px(40) + 1,
   stroke |-> PURPLE],
  [type |-> "line", x1 |-> Px(1), y1 |-> Px(2), x2 |-> Px(3), y2 |-> Px(4), stroke |-> UNLISTED],
  [type |-> "line", x1 |-> Px(400), y1 |-> Px(10), x2 |-> Px(400), y2 |-> Px(390), stroke |-> BLACK],
  [type |-> "rect", left |-> Px(5), top |-> Px(5), width |-> Px(50), height |-> Px(50),
   stroke |-> BLUE] }

MaxObjects == 3

----------------------------------------------------------------------------
(* The session: the user draws, clears, changes a sidebar control or presses *)
(* a button, and each of these reruns the script.                           *)

Init ==
  /\ Is(RunScript(None, "none"))
  /\ hexcolor = None
  /\ ctype = None

DrawObject ==
  /\ Len(Objects(json_data)) < MaxObjects
  /\ \E s \in Palette : Ran(RunScript([objects |-> Append(Objects(json_data), s)], "none"))

ClearCanvas == Ran(RunScript([objects |-> <<>>], "none"))

Rerun == Ran(RunScript(json_data, "none"))

ClickReconstruct == Ran(RunScript(json_data, "reconstruct"))

ClickExportPNG == Ran(RunScript(json_data, "png"))

ClickGenerateTikZ == Ran(RunScript(json_data, "tikz"))

Next ==
  \/ DrawObject
  \/ ClearCanvas
  \/ Rerun
  \/ ClickReconstruct
  \/ ClickExportPNG
  \/ ClickGenerateTikZ

Spec == Init /\ [][Next]_vars

----------------------------------------------------------------------------
(* parse_canvas_objects on one shape record that lacks any subset of its     *)
(* optional fields, followed by the rest of the script.                     *)

\* The record t without the optional fields outside S.
Restrict(t, S) == [f \in S \cup {"type"} |-> t[f]]

Subrecords(t) == {Restrict(t, S) : S \in SUBSET (DOMAIN t \ {"type"})}

CircleFull ==
  [type |-> "circle", stroke |-> BLUE, strokeStyle |-> RED,
   left |-> Px(10), top |-> Px(20), radiusX |-> Px(5), rx |-> Px(7),
   radiusY |-> Px(5), ry |-> Px(9) + 1]

EllipseFull ==
  [type |-> "ellipse", stroke |-> <<>>, strokeStyle |-> ORANGE_U,
   left |-> 0, top |-> 3, radiusX |-> 0, rx |-> Px(30) + 3,
   radiusY |-> Px(12) + 2, ry |-> 0]

LineFull ==
  [type |-> "line", stroke |-> GREEN,
   x1 |-> 0, y1 |-> 0, x2 |-> Px(100), y2 |-> 0,
   left |-> Px(7), top |-> Px(9),
   points |-> <<[x |-> 1, y |-> 2], [x |-> Px(5), y |-> Px(5)], [x |-> Px(40) + 3, y |-> Px(10)]>>,
   width |-> Px(40), height |-> Px(20) + 1]

PathFull ==
  [type |-> "path", stroke |-> PURPLE,
   x1 |-> Px(5) + 1, y1 |-> Px(6), x2 |-> Px(7) + 2, y2 |-> Px(8) + 3,
   left |-> Px(50), top |-> Px(60),
   points |-> <<[x |-> Px(2), y |-> Px(3)]>>,
   width |-> Px(80), height |-> Px(40) + 1]

PathSparse ==
  [type |-> "path", stroke |-> UNLISTED,
   x1 |-> Px(1), y1 |-> Px(2), x2 |-> Px(3), y2 |-> Px(4),
   left |-> Px(30) + 2, top |-> Px(10) + 1,
   points |-> <<[x |-> Px(4)], [y |-> Px(8) + 1]>>,
   width |-> Px(9), height |-> Px(11)]

\* A complete line in each stroke colour.
ColouredLines ==
  {[type |-> "line", x1 |-> Px(10), y1 |-> Px(50), x2 |-> Px(110) + 1, y2 |-> Px(70) + 3,
    stroke |-> c] : c \in {BLACK, BLUE, ORANGE_U, GREEN, RED, PURPLE, UNLISTED}}

AllShapes ==
  Subrecords(CircleFull) \cup Subrecords(EllipseFull) \cup Subrecords(LineFull)
    \cup Subrecords(PathFull) \cup Subrecords(PathSparse) \cup ColouredLines \cup Palette
    \cup {[left |-> Px(1), top |-> Px(1)]}

\* The surface hands over its first shape.
DrawRecord ==
  /\ Len(Objects(json_data)) = 0
  /\ \E s \in AllShapes : Ran(RunScript([objects |-> <<s>>], "none"))

NextShape ==
  \/ DrawRecord
  \/ Rerun
  \/ ClickReconstruct
  \/ ClickExportPNG
  \/ ClickGenerateTikZ

SpecShape == Init /\ [][NextShape]_vars

----------------------------------------------------------------------------
(* color_to_type called on its own *)

Prefixes == {<<>>, <<"#">>, <<"#","#">>, <<"0","x">>}

Cores ==
  {LStrip(color_map[i].v, "#") : i \in 1..Len(color_map)}
    \cup {<<"1","F","7","7","B","4">>, <<"F","F","7","F","0","E">>, <<"2","C","a","0","2","c">>,
          <<"D","6","2","7","2","8">>, <<"9","4","6","7","B","D">>,
          <<"0","0","0","0","0","1">>, <<"1","f","7","7","b">>, <<>>}

Suffixes == {<<>>, <<"f","f">>, <<"0","0","0","0","0","0">>, <<"1","f","7","7","b","4">>,
             <<"9","4","6","7","B","D">>}

Strokes == {p \o c \o x : p \in Prefixes, c \in Cores, x \in Suffixes}

\* color_to_type(None)
ClassifyAbsent ==
  /\ ctype = None
  /\ hexcolor' = None
  /\ ctype' = Some(color_to_type(None))
  /\ UNCHANGED <<json_data, nodes, edges, quick_view, message, image, tikz, exc, button>>

\* color_to_type(h) for a str h
Classify ==
  /\ ctype = None
  /\ \E h \in Strokes :
       /\ hexcolor' = Some(h)
       /\ ctype' = Some(color_to_type(Some(h)))
  /\ UNCHANGED <<json_data, nodes, edges, quick_view, message, image, tikz, exc, button>>

NextClassify ==
  \/ ClassifyAbsent
  \/ Classify

SpecClassify == Init /\ [][NextClassify]_vars

----------------------------------------------------------------------------
(* Properties *)

IsRound(obj)  == "type" \in DOMAIN obj /\ obj.type \in {"circle", "ellipse"}
IsLinear(obj) == "type" \in DOMAIN obj /\ obj.type \in {"line", "path"}

\* The circle/ellipse shapes and the line/path shapes of the canvas, in input order.
RoundShapes  == SelectSeq(Objects(json_data), IsRound)
LinearShapes == SelectSeq(Objects(json_data), IsLinear)

Has(obj, f) == f \in DOMAIN obj

\* C1: after every run, whatever ran before, Nodes holds one entry per
\* circle/ellipse shape and Edges one entry per line/path shape, other shapes
\* contribute nothing, the Node ids are 0..N-1 in input order, and both lists
\* keep the input order of their shapes.
C1_CountsIdsOrder ==
  /\ Len(nodes) = Len(RoundShapes)
  /\ Len(edges) = Len(LinearShapes)
  /\ \A i \in 1..Len(nodes) : nodes[i].id = i - 1 /\ nodes[i].raw = RoundShapes[i]
  /\ \A j \in 1..Len(edges) : edges[j].raw = LinearShapes[j]

\* C1 witness: a line, then two distinct vertices, then a shape of another kind.
C1_Witness ==
  /\ Len(Objects(json_data)) = 3
  /\ IsLinear(Objects(json_data)[1])
  /\ IsRound(Objects(json_data)[2])
  /\ IsRound(Objects(json_data)[3])
  /\ Objects(json_data)[2] # Objects(json_data)[3]
  /\ Len(nodes) = 2
  /\ Len(edges) = 1

\* The table entries a stroke matches exactly, and by substring, ignoring case.
ArgStr == IF hexcolor.none THEN <<>> ELSE hexcolor.v
ExactHits == {i \in 1..Len(color_map) : Lower(color_map[i].v) = Lower(ArgStr)}
SubstrHits == {i \in 1..Len(color_map) : In(Lower(Tail(color_map[i].v)), Lower(ArgStr))}
First(S) == CHOOSE i \in S : \A j \in S : i <= j

\* C2: color_to_type gives the type of the table colour the stroke equals
\* ignoring case; failing that, the type of the first table entry whose hex
\* digits occur in the stroke ignoring case; failing that, and for an empty
\* or absent stroke, desconocido.
C2_ThreeSteps ==
  ctype # None =>
    ctype.v = IF ExactHits # {} THEN color_map[First(ExactHits)].k
              ELSE IF SubstrHits # {} THEN color_map[First(SubstrHits)].k
              ELSE K_unknown

\* C2 witness: a stroke classified by substring with two table entries in it,
\* without the leading '#'.
C2_Witness ==
  /\ ctype # None
  /\ ExactHits = {}
  /\ Cardinality(SubstrHits) >= 2
  /\ ~In(<<"#">>, ArgStr)
  /\ ArgStr # Lower(ArgStr)

\* The \draw declarations of the document shown, in order.
IsDraw(l) == l.kind = "draw"
IsNodeDecl(l) == l.kind = "node"
NotBlank(l) == l.kind # "blank"
DrawLines == SelectSeq(tikz.v, IsDraw)

\* C3: every Antifermion edge is emitted with '<-' and every Fermion edge
\* with '->'.
C3_OppositeArrows ==
  tikz # None =>
    \A j \in 1..Len(edges) :
      /\ edges[j].type = K_antifermion => DrawLines[j].style = "<-"
      /\ edges[j].type = K_fermion => DrawLines[j].style = "->"

\* C4 as stated: NeutralLine and Unknown edges are plain segments, and only
\* Fermion and Antifermion edges carry an arrow directive.
C4_Original ==
  tikz # None =>
    \A j \in 1..Len(edges) :
      /\ edges[j].type \in {K_neutral, K_unknown} =>
           DrawLines[j].style = "" /\ DrawLines[j].extra = ""
      /\ DrawLines[j].style # "" => edges[j].type \in {K_fermion, K_antifermion}

\* C4 amended: a NeutralLine edge is a plain segment; an Unknown edge has no
\* photon/gluon style but carries the default forward arrow; the edges
\* without an arrow directive are exactly the Photon, Gluon and NeutralLine
\* ones.
C4_Amended ==
  tikz # None =>
    \A j \in 1..Len(edges) :
      /\ edges[j].type = K_neutral => DrawLines[j].style = "" /\ DrawLines[j].extra = ""
      /\ edges[j].type = K_unknown => DrawLines[j].style = "->" /\ DrawLines[j].extra = ""
      /\ DrawLines[j].style = "" <=> edges[j].type \in {K_photon, K_gluon, K_neutral}

\* C4 witness: a document with a NeutralLine edge and an Unknown edge.
C4_Witness ==
  /\ tikz # None
  /\ \E j \in 1..Len(edges) : edges[j].type = K_neutral
  /\ \E j \in 1..Len(edges) : edges[j].type = K_unknown

\* C5: an export taken while Nodes and Edges are both empty reports its
\* nothing-to-export error and shows no artifact; an image or a document is
\* shown only when a Node or an Edge exists.
C5_EmptyExportRefused ==
  /\ (button = "png" /\ Len(nodes) + Len(edges) = 0) =>
       message = MsgNoPNG /\ image = None /\ tikz = None
  /\ (button = "tikz" /\ Len(nodes) + Len(edges) = 0) =>
       message = MsgNoTikZ /\ image = None /\ tikz = None
  /\ (image # None \/ tikz # None) => Len(nodes) + Len(edges) > 0

\* C5 witness: TikZ asked for with a canvas that holds only an ignored shape.
C5_Witness ==
  /\ button = "tikz"
  /\ Len(Objects(json_data)) > 0
  /\ Len(nodes) + Len(edges) = 0
  /\ message = MsgNoTikZ

\* C6: whatever optional fields the shapes lack, the run completes and every
\* coordinate of every Node and Edge is a number.
C6_NoAbortAllNumeric ==
  /\ exc = "none"
  /\ \A j \in 1..Len(edges) :
       ~edges[j].x1.none /\ ~edges[j].y1.none /\ ~edges[j].x2.none /\ ~edges[j].y2.none

\* The declarations of the document shown, its blank lines left out.
DocLines == SelectSeq(tikz.v, NotBlank)
NodeDecls == SelectSeq(tikz.v, IsNodeDecl)

\* preamble, one declaration per Node in Node order labelled with its id, one
\* declaration per Edge in Edge order, closing directive
DocStructure ==
  /\ Len(NodeDecls) = Len(nodes)
  /\ Len(DrawLines) = Len(edges)
  /\ DocLines = header \o NodeDecls \o DrawLines \o footer
  /\ \A i \in 1..Len(nodes) : NodeDecls[i].label = nodes[i].id

\* t tenths is q quarter pixels printed unchanged.
Exactly(t, q) == 4 * t = 10 * q

\* t tenths is q quarter pixels rounded to one decimal place, ties to even.
Rounded(t, q) ==
  LET d == 10 * q - 4 * t
  IN (-2 < d /\ d < 2) \/ ((d = 2 \/ d = -2) /\ t % 2 = 0)

\* C7 as stated: every Node and both endpoints of every Edge are emitted with
\* x unchanged and y equal to canvasHeight minus the source y, in a document
\* of preamble, Node declarations, Edge declarations and closing directive.
C7_Original ==
  tikz # None =>
    /\ DocStructure
    /\ \A i \in 1..Len(nodes) :
         /\ Exactly(NodeDecls[i].x, nodes[i].x)
         /\ Exactly(NodeDecls[i].y, 4 * CANVAS_HEIGHT - nodes[i].y)
    /\ \A j \in 1..Len(edges) :
         /\ Exactly(DrawLines[j].x1, edges[j].x1.v)
         /\ Exactly(DrawLines[j].y1, 4 * CANVAS_HEIGHT - edges[j].y1.v)
         /\ Exactly(DrawLines[j].x2, edges[j].x2.v)
         /\ Exactly(DrawLines[j].y2, 4 * CANVAS_HEIGHT - edges[j].y2.v)

\* C7 amended: x and canvasHeight minus y are each emitted rounded to one
\* decimal place, in the same document structure.
C7_Amended ==
  tikz # None =>
    /\ DocStructure
    /\ \A i \in 1..Len(nodes) :
         /\ Rounded(NodeDecls[i].x, nodes[i].x)
         /\ Rounded(NodeDecls[i].y, 4 * CANVAS_HEIGHT - nodes[i].y)
    /\ \A j \in 1..Len(edges) :
         /\ Rounded(DrawLines[j].x1, edges[j].x1.v)
         /\ Rounded(DrawLines[j].y1, 4 * CANVAS_HEIGHT - edges[j].y1.v)
         /\ Rounded(DrawLines[j].x2, edges[j].x2.v)
         /\ Rounded(DrawLines[j].y2, 4 * CANVAS_HEIGHT - edges[j].y2.v)

\* C7 witness: a document of two Nodes and an Edge with a coordinate that has
\* more than one decimal and a Node below the canvas.
C7_Witness ==
  /\ tikz # None
  /\ Len(nodes) = 2
  /\ Len(edges) = 1
  /\ \E i \in 1..2 : (10 * nodes[i].x) % 4 # 0
  /\ \E i \in 1..2 : nodes[i].y > 4 * CANVAS_HEIGHT
  /\ (10 * edges[1].y2.v) % 4 # 0

\* The radii and the stroke a circle or ellipse shape is read with.
RadiusX(obj) == IF Has(obj, "radiusX") THEN obj.radiusX ELSE IF Has(obj, "rx") THEN obj.rx ELSE 4 * 10
RadiusY(obj) == IF Has(obj, "radiusY") THEN obj.radiusY ELSE IF Has(obj, "ry") THEN obj.ry ELSE 4 * 10
LeftOf(obj) == IF Has(obj, "left") THEN obj.left ELSE 0
TopOf(obj) == IF Has(obj, "top") THEN obj.top ELSE 0
StrokeField(obj) ==
  IF Has(obj, "stroke") /\ obj.stroke # <<>> THEN obj.stroke
  ELSE IF Has(obj, "strokeStyle") /\ obj.strokeStyle # <<>> THEN obj.strokeStyle
  ELSE <<>>

\* The shape of the example: left=10, top=20, radii 5, Fermion colour.
C8_Example ==
  [type |-> "circle", left |-> 4 * 10, top |-> 4 * 20, radiusX |-> 4 * 5, radiusY |-> 4 * 5,
   stroke |-> color_map[2].v]

\* C8: every circle or ellipse shape gives one Node at (left + radiusX,
\* top + radiusY), radiusX from radiusX, else rx, else 10 (likewise radiusY),
\* left and top defaulting to 0, typed by the classification of its stroke
\* (stroke, else strokeStyle, else empty) whatever its geometry; the example
\* gives id=0, x=15, y=25, Fermion.
C8_NodePosition ==
  /\ Len(nodes) = Len(RoundShapes)
  /\ \A i \in 1..Len(nodes) :
       /\ nodes[i].x = LeftOf(RoundShapes[i]) + RadiusX(RoundShapes[i])
       /\ nodes[i].y = TopOf(RoundShapes[i]) + RadiusY(RoundShapes[i])
       /\ nodes[i].type = color_to_type(Some(StrokeField(RoundShapes[i])))
  /\ Objects(json_data) = <<C8_Example>> =>
       /\ Len(nodes) = 1
       /\ nodes[1].id = 0 /\ nodes[1].x = 4 * 15 /\ nodes[1].y = 4 * 25
       /\ nodes[1].type = K_fermion

\* C8 witness: an ellipse read through rx and the default radiusY, with an
\* empty stroke and an upper-case strokeStyle.
C8_Witness ==
  /\ Len(nodes) = 1
  /\ ~Has(nodes[1].raw, "radiusX") /\ Has(nodes[1].raw, "rx")
  /\ ~Has(nodes[1].raw, "radiusY") /\ ~Has(nodes[1].raw, "ry")
  /\ ~Has(nodes[1].raw, "left")
  /\ Has(nodes[1].raw, "stroke") /\ Has(nodes[1].raw, "strokeStyle")
  /\ nodes[1].type = K_antifermion
  /\ nodes[1].x = 4 * 30 + 3
  /\ nodes[1].y = 3 + 4 * 10

\* The endpoints C9 gives a line or path shape.
C9_Endpoints(obj) ==
  IF Has(obj, "x1") /\ Has(obj, "y1") /\ Has(obj, "x2") /\ Has(obj, "y2")
  THEN <<Some(obj.x1), Some(obj.y1), Some(obj.x2), Some(obj.y2)>>
  ELSE IF Has(obj, "points") /\ Len(obj.points) >= 2
  THEN LET p0 == obj.points[1]
           pN == obj.points[Len(obj.points)]
       IN <<Some(LeftOf(obj) + (IF Has(p0, "x") THEN p0.x ELSE 0)),
            Some(TopOf(obj) + (IF Has(p0, "y") THEN p0.y ELSE 0)),
            Some(LeftOf(obj) + (IF Has(pN, "x") THEN pN.x ELSE 0)),
            Some(TopOf(obj) + (IF Has(pN, "y") THEN pN.y ELSE 0))>>
  ELSE <<Some(LeftOf(obj)), Some(TopOf(obj)),
         Some(LeftOf(obj) + (IF Has(obj, "width") THEN obj.width ELSE 0)),
         Some(TopOf(obj) + (IF Has(obj, "height") THEN obj.height ELSE 0))>>

\* C9: every line or path shape gives one Edge whose endpoints are its
\* x1,y1,x2,y2 when the endpoint fields are present, otherwise the first and
\* last of its two or more points moved by (left, top), otherwise its
\* bounding box.
C9_EdgeEndpoints ==
  /\ Len(edges) = Len(LinearShapes)
  /\ \A j \in 1..Len(edges) :
       <<edges[j].x1, edges[j].y1, edges[j].x2, edges[j].y2>> = C9_Endpoints(LinearShapes[j])

\* The colour, dash pattern and arrowhead C10 gives an Edge type.
C10_Style(typ) ==
  IF typ = K_fermion THEN [color |-> color_map[2].v, style |-> "solid", arrow |-> TRUE]
  ELSE IF typ = K_antifermion THEN [color |-> color_map[3].v, style |-> "solid", arrow |-> TRUE]
  ELSE IF typ = K_photon THEN [color |-> color_map[4].v, style |-> "dashdot", arrow |-> FALSE]
  ELSE IF typ = K_gluon THEN [color |-> color_map[5].v, style |-> "dashed", arrow |-> FALSE]
  ELSE IF typ = K_neutral THEN [color |-> color_map[6].v, style |-> "solid", arrow |-> FALSE]
  ELSE [color |-> <<"#","2","2","2","2","2","2">>, style |-> "solid", arrow |-> FALSE]

\* C10: each Edge is drawn in the style of its own type: Fermion and
\* Antifermion solid with an arrowhead at 70% pointing from endpoint1 to
\* endpoint2, Photon dash-dot, Gluon dashed, NeutralLine solid, Unknown solid
\* dark gray, the last four without arrowhead, and each of the five line
\* types in the table colour of that same type.
C10_StyleByOwnType ==
  image # None =>
    \A j \in 1..Len(edges) :
      LET l == image.v.lines[j]
          e == edges[j]
          want == C10_Style(e.type)
      IN e.type # K_vertex =>
           /\ l.color = want.color
           /\ l.linestyle = want.style
           /\ (l.arrow # None) = want.arrow
           /\ l.arrow # None =>
                /\ l.arrow.v.sx = 10 * e.x1.v + 7 * (e.x2.v - e.x1.v)
                /\ l.arrow.v.sy = 10 * e.y1.v + 7 * (e.y2.v - e.y1.v)
                /\ l.arrow.v.dx = e.x2.v - e.x1.v
                /\ l.arrow.v.dy = e.y2.v - e.y1.v

====
